---- MODULE Spec2Model ----
(***************************************************************************)
(* calculate_magnetic_parameters (src/冷湖实习磁倾角与磁偏角测量.py,        *)
(* lines 27-76) as a state machine over the data frame it mutates in place. *)
(*                                                                         *)
(* Values.  A cell is a record [k, v, neg]:                                *)
(*   k = "num"    a float; v is its value in fixed point, neg its IEEE     *)
(*                sign bit (so v = 0, neg = TRUE is -0.0)                  *)
(*   k = "nan"    the missing value NaN                                    *)
(*   k = "numstr" a string that parses as the number v (object column)     *)
(*   k = "text"   a string that does not parse as a number                 *)
(* Field values are in units of 0.01 uT, angles in units of 0.001 degree.  *)
(***************************************************************************)
EXTENDS Integers, Sequences, FiniteSets, TLC

VARIABLES
    df,             \* the data frame: column name -> sequence of cells
    pc,             \* the line calculate_magnetic_parameters is about to run
    n,              \* local n (0 while unassigned)
    window_length,  \* local window_length (0 while unassigned)
    err,            \* the exception that ended the call, or "none"
    calls,          \* how many times the function has been entered on this table
    filter_calls,   \* how many times savgol_filter has been invoked
    produced,       \* for each smoothed column: how its last assignment was made
    lstsq_rejects_nan, \* the installed numpy/LAPACK: does the least-squares
                    \* solver reject a NaN right-hand side (LinAlgError)?
    input,          \* history: the table as first passed in
    before,         \* history: the table when the current call reached line 48
    first           \* history: the table the first call returned

vars == <<df, pc, n, window_length, err, calls, filter_calls, produced,
         lstsq_rejects_nan, input, before, first>>

(* ---------------------------------------------------------------- bounds *)

\* Every series length 1..MaxN is explored, plus the lengths in LongLengths.
MaxN == 13

\* calculate_magnetic_parameters is applied at most MaxCalls times to one table.
MaxCalls == 2

(* ---------------------------------------------------------------- values *)

Num(v) == [k |-> "num", v |-> v, neg |-> v < 0]

NegZero == [k |-> "num", v |-> 0, neg |-> TRUE]

NaN == [k |-> "nan", v |-> 0, neg |-> FALSE]

Text == [k |-> "text", v |-> 0, neg |-> FALSE]

NumStr(v) == [k |-> "numstr", v |-> v, neg |-> v < 0]

IsNaN(x) == x.k = "nan"

IsNum(x) == x.k = "num"

Abs(i) == IF i < 0 THEN -i ELSE i

Min(a, b) == IF a < b THEN a ELSE b

Max(a, b) == IF a > b THEN a ELSE b

\* pd.to_numeric(col, errors='coerce'), one cell: a number stays, a numeric
\* string is parsed, anything else becomes NaN; nothing raises.
ToNumeric(x) ==
    IF x.k = "numstr" THEN [k |-> "num", v |-> x.v, neg |-> x.neg]
    ELSE IF x.k = "text" THEN NaN
    ELSE x

RECURSIVE ISqrtBits(_, _, _)
\* floor(sqrt(a)), bit by bit from 2^b down
ISqrtBits(a, r, b) ==
    IF b < 0 THEN r
    ELSE LET t == r + 2 ^ b
         IN  ISqrtBits(a, IF t * t <= a THEN t ELSE r, b - 1)

\* sqrt rounded to the nearest unit
SqrtRound(a) ==
    LET r == ISqrtBits(a, 0, 15)
    IN  IF a - r * r > r THEN r + 1 ELSE r

\* np.sqrt(bx**2 + by**2): NaN if either is NaN, else a non-negative float
HorizontalField(bx, by) ==
    IF IsNaN(bx) \/ IsNaN(by) THEN NaN
    ELSE Num(SqrtRound(bx.v * bx.v + by.v * by.v))

(* ------------------------------------------------------------- arctan2 *)

\* atan(2^-i) in units of 1e-6 degree, i = 0..20
AtanTable ==
    << 45000000, 26565051, 14036243, 7125016, 3576334, 1789911, 895174,
       447614, 223811, 111906, 55953, 27976, 13988, 6994, 3497, 1749, 874,
       437, 219, 109, 55 >>

CordicLimit == 2 ^ 28

RECURSIVE CordicScale(_, _)
\* the largest power of two s with m * s below CordicLimit (fixed-point headroom)
CordicScale(m, s) == IF m * s * 2 < CordicLimit THEN CordicScale(m, s * 2) ELSE s

RECURSIVE Cordic(_, _, _, _)
\* vectoring rotations: drives y to 0 and accumulates the angle of (x, y)
Cordic(x, y, z, i) ==
    IF i >= Len(AtanTable) THEN z
    ELSE LET s == 2 ^ i
         IN  IF y >= 0
             THEN Cordic(x + (y \div s), y - (x \div s), z + AtanTable[i + 1], i + 1)
             ELSE Cordic(x - (y \div s), y + (x \div s), z - AtanTable[i + 1], i + 1)

\* atan(a / b) in 0.001 degree for a >= 0, b > 0
AtanMilli(a, b) ==
    LET s == CordicScale(Max(a, b), 1)
    IN  (Cordic(b * s, a * s, 0, 0) + 500) \div 1000

\* a plain ratio-based arctangent, atan(y / x): the quadrant is lost
ArcTan2DegRatio(y, x) ==
    IF IsNaN(y) \/ IsNaN(x) THEN NaN
    ELSE IF x.v = 0 THEN (IF y.v >= 0 THEN Num(90000) ELSE Num(-90000))
    ELSE LET a == AtanMilli(Abs(y.v), Abs(x.v))
         IN  IF (y.v > 0) = (x.v > 0) THEN Num(a) ELSE Num(-a)

\* np.degrees(np.arctan2(y, x)), with the IEEE conventions for zeros of either
\* sign: arctan2(+-0, x) is +-0 for x >= +0 and +-180 for x <= -0.
ArcTan2Deg(y, x) ==
    IF IsNaN(y) \/ IsNaN(x) THEN NaN
    ELSE IF y.v = 0
         THEN (IF ~x.neg
               THEN (IF y.neg THEN NegZero ELSE Num(0))
               ELSE (IF y.neg THEN Num(-180000) ELSE Num(180000)))
    ELSE IF x.v = 0 THEN (IF y.v > 0 THEN Num(90000) ELSE Num(-90000))
    ELSE LET a == AtanMilli(Abs(y.v), Abs(x.v))
         IN  IF x.v > 0 THEN (IF y.v > 0 THEN Num(a) ELSE Num(-a))
             ELSE (IF y.v > 0 THEN Num(180000 - a) ELSE Num(a - 180000))

(* ------------------------------------------------------- savgol_filter *)

\* Common denominator of the degree-2 least-squares weights of a window of
\* half-length m, and the weight (times that denominator) that the sample at
\* offset j from the window centre has in the fitted value at offset t.
KDen(m) == m * (m + 1) * (2 * m + 1) * (2 * m - 1) * (2 * m + 3)

KNum(m, t, j) ==
    KDen(m) \div (2 * m + 1)
    + t * j * 3 * (2 * m - 1) * (2 * m + 3)
    + 5 * (3 * t * t - m * (m + 1)) * (3 * j * j - m * (m + 1))

\* base-100 digit d of a value (digit 2 carries the sign and the rest)
Digit(y, d) ==
    IF d = 0 THEN y % 100
    ELSE IF d = 1 THEN (y \div 100) % 100
    ELSE y \div 10000

RECURSIVE WeightedSum(_, _, _, _, _, _)
\* sum over j = from..m of KNum(m, t, j) * digit d of x[c + j]
WeightedSum(x, c, m, t, d, from) ==
    IF from > m THEN 0
    ELSE KNum(m, t, from) * Digit(x[c + from].v, d)
         + WeightedSum(x, c, m, t, d, from + 1)

\* (sum of weight * value) / KDen, rounded to the nearest unit; the division
\* is carried digit by digit so that no intermediate exceeds 32 bits
FitValue(x, c, m, t) ==
    LET D  == KDen(m)
        s2 == WeightedSum(x, c, m, t, 2, -m)
        n1 == (s2 % D) * 100 + WeightedSum(x, c, m, t, 1, -m)
        q1 == (s2 \div D) * 100 + (n1 \div D)
        n0 == (n1 % D) * 100 + WeightedSum(x, c, m, t, 0, -m)
        q0 == q1 * 100 + (n0 \div D)
    IN  IF 2 * (n0 % D) >= D THEN q0 + 1 ELSE q0

\* savgol_filter raises ValueError when polyorder >= window_length
\* (savgol_coeffs) or, in mode 'interp', when window_length > len(x).
SavgolRaises(x, w, polyorder) == polyorder >= w \/ w > Len(x)

\* In mode 'interp' savgol_filter fits the first w and the last w samples with
\* np.polyfit, which solves a least-squares problem whose right-hand side is
\* those samples.  What the solver does with a NaN there is the installed
\* LAPACK's choice: it returns NaN coefficients, or it reports failure and
\* numpy raises LinAlgError ("SVD did not converge in Linear Least Squares").
\* The samples between the two edge windows only go through correlate1d,
\* which never raises.
EdgeFitFails(x, w, rejects) ==
    /\ rejects
    /\ \E j \in (1..w) \cup ((Len(x) - w + 1)..Len(x)) : ~IsNum(x[j])

\* savgol_filter(x, window_length=w, polyorder=2), mode 'interp', when it
\* returns: sample i is the value at i of the parabola fitted to the w samples
\* centred on i, and within w // 2 of either end, to the first (last) w
\* samples.  A NaN anywhere in that window makes the result NaN (correlate1d
\* in the middle, NaN polyfit coefficients at the edges when the solver
\* accepts NaN).  The input is not modified.
SavgolTruncating(x, w) ==
    LET m == w \div 2
    IN  [i \in 1..(Len(x) - 2 * m) |-> Num(FitValue(x, i + m, m, 0))]

SavgolFilter(x, w) ==
    LET m == w \div 2
        len == Len(x)
    IN  [i \in 1..len |->
            LET c == Min(Max(i, m + 1), len - m)
            IN  IF \E j \in (c - m)..(c + m) : ~IsNum(x[j]) THEN NaN
                ELSE Num(FitValue(x, c, m, i - c))]

(* ------------------------------------------------------ the data frame *)

RawColumns == {"Time_s", "Bx_uT", "By_uT", "Bz_uT", "Absolute_field_uT"}

AngleColumns == {"H_uT", "Dip_Angle_deg", "Declination_deg"}

SmoothColumns == {"Dip_Angle_smooth", "Declination_smooth", "Bz_smooth"}

NoTable == [c \in {} |-> << >>]

\* df[c] = s: replaces column c, or appends it when it is new
SetColumn(d, c, s) == [x \in DOMAIN d \cup {c} |-> IF x = c THEN s ELSE d[x]]

\* len(df): the number of rows
Rows(d) == Len(d["Time_s"])

\* line 49: smoothing needs more than MinSamples samples
MinSamplesLow == 10 - 5

MinSamples == 10

\* lines 52 and 55: the smallest window
MinWindow == 5

\* line 51: the largest window
MaxWindow == 21

\* lines 58, 61, 64
PolyOrder == 2

\* n // 4 if n // 4 % 2 == 1 else n // 4 + 1
OddCandidate(len) == IF (len \div 4) % 2 = 1 THEN len \div 4 ELSE len \div 4 + 1

\* the window without the cap of line 51
WindowLengthUncapped(len) == Max(MinWindow, OddCandidate(len))

\* the window without the floor of line 52
WindowLengthNoFloor(len) == Min(MaxWindow, OddCandidate(len))

\* lines 51-52
WindowLength(len) == Max(MinWindow, Min(MaxWindow, OddCandidate(len)))

(* ------------------------------------------------------------- inputs *)

LongLengths == {20, 24, 50, 88, 100, 200}

\* <<Bx, By, Bz>> of the samples of a steady recording
BaseRows == { <<Num(2000), Num(0), Num(4000)>>, <<Num(-3000), Num(-4000), Num(-5000)>> }

\* the cells one sample may hold instead
OddBx == {Num(2000), Num(-3000), Num(0), NegZero, Text}

OddBy == {Num(4000), Num(-4000), Num(0), NegZero, NaN}

OddBz == {Num(4000), Num(-5000), Num(0), NumStr(-5000), Text}

OddRows == { <<x, y, z>> : x \in OddBx, y \in OddBy, z \in OddBz }

LongOddRows == { <<Num(2000), Num(0), Num(4000)>>, <<Text, Num(4000), Num(4000)>>,
                 <<NegZero, Num(0), NumStr(-5000)>> }

\* a table of len samples, all equal to base except sample k, which is odd
Table(len, base, odd, k) ==
    LET row(i) == IF i = k THEN odd ELSE base
    IN  [c \in RawColumns |->
            [i \in 1..len |->
                CASE c = "Time_s" -> Num(10 * i)
                  [] c = "Bx_uT" -> row(i)[1]
                  [] c = "By_uT" -> row(i)[2]
                  [] c = "Bz_uT" -> row(i)[3]
                  [] OTHER -> IF i = k THEN NumStr(4500) ELSE Num(4500)]]

InputTables ==
    UNION { { Table(len, b, o, k) : b \in BaseRows, o \in OddRows, k \in {1, len} } :
            len \in 1..MaxN }
    \cup
    { Table(len, <<Num(2000), Num(0), Num(4000)>>, o, len \div 2) :
        len \in LongLengths, o \in LongOddRows }

(* ------------------------------------------------------------ actions *)

Init ==
    /\ input \in InputTables
    /\ df = input
    /\ pc = "L34"
    /\ n = 0
    /\ window_length = 0
    /\ err = "none"
    /\ lstsq_rejects_nan \in BOOLEAN
    /\ calls = 1
    /\ filter_calls = 0
    /\ produced = [c \in {} |-> "none"]
    /\ before = NoTable
    /\ first = NoTable

Raise(e) ==
    /\ pc' = "raised"
    /\ err' = e
    /\ UNCHANGED <<df, n, window_length, calls, produced, lstsq_rejects_nan, input, before, first>>

\* lines 34-35: every raw column through pd.to_numeric(errors='coerce')
Coerce ==
    /\ pc = "L34"
    /\ df' = [c \in DOMAIN df |->
                IF c \in RawColumns
                THEN [i \in 1..Len(df[c]) |-> ToNumeric(df[c][i])]
                ELSE df[c]]
    /\ pc' = "L38"
    /\ UNCHANGED <<n, window_length, err, calls, filter_calls, produced,
                   lstsq_rejects_nan, input, before, first>>

\* line 38
DeriveH ==
    /\ pc = "L38"
    /\ df' = SetColumn(df, "H_uT",
                [i \in 1..Rows(df) |-> HorizontalField(df["Bx_uT"][i], df["By_uT"][i])])
    /\ pc' = "L41"
    /\ UNCHANGED <<n, window_length, err, calls, filter_calls, produced, lstsq_rejects_nan, input, before, first>>

\* line 41 reading the smoothed vertical component once it exists
DeriveDipFromSmoothed ==
    /\ pc = "L41"
    /\ df' = SetColumn(df, "Dip_Angle_deg",
                [i \in 1..Rows(df) |->
                    ArcTan2Deg((IF "Bz_smooth" \in DOMAIN df
                                THEN df["Bz_smooth"] ELSE df["Bz_uT"])[i],
                               df["H_uT"][i])])
    /\ pc' = "L45"
    /\ UNCHANGED <<n, window_length, err, calls, filter_calls, produced, lstsq_rejects_nan, input, before, first>>

\* line 41
DeriveDip ==
    /\ pc = "L41"
    /\ df' = SetColumn(df, "Dip_Angle_deg",
                [i \in 1..Rows(df) |-> ArcTan2Deg(df["Bz_uT"][i], df["H_uT"][i])])
    /\ pc' = "L45"
    /\ UNCHANGED <<n, window_length, err, calls, filter_calls, produced, lstsq_rejects_nan, input, before, first>>

\* line 45
DeriveDeclination ==
    /\ pc = "L45"
    /\ df' = SetColumn(df, "Declination_deg",
                [i \in 1..Rows(df) |-> ArcTan2Deg(df["By_uT"][i], df["Bx_uT"][i])])
    /\ pc' = "L48"
    /\ UNCHANGED <<n, window_length, err, calls, filter_calls, produced, lstsq_rejects_nan, input, before, first>>

\* lines 48-52: n, and for n > 10 the window length
Plan ==
    /\ pc = "L48"
    /\ n' = Rows(df)
    /\ window_length' = IF Rows(df) > MinSamples THEN WindowLength(Rows(df)) ELSE window_length
    /\ before' = df
    /\ pc' = "L56"
    /\ UNCHANGED <<df, err, calls, filter_calls, produced, lstsq_rejects_nan, input, first>>

\* lines 49 and 55: the filter runs
SmoothingEnabled == n > MinSamples /\ window_length >= MinWindow

\* lines 56-74 with the vertical component never filtered
SmoothAnglesOnly(here, src, dst, next) ==
    /\ pc = here
    /\ IF SmoothingEnabled /\ dst # "Bz_smooth"
       THEN /\ df' = SetColumn(df, dst, SavgolFilter(df[src], window_length))
            /\ filter_calls' = filter_calls + 1
            /\ produced' = SetColumn(produced, dst, <<"filter", window_length>>)
       ELSE /\ df' = SetColumn(df, dst, df[src])
            /\ produced' = SetColumn(produced, dst, <<"copy", 0>>)
            /\ UNCHANGED filter_calls
    /\ pc' = next
    /\ UNCHANGED <<n, window_length, err, calls, lstsq_rejects_nan, input, before, first>>

\* lines 56-74 with the filter's output also written back over its input
SmoothInPlace(here, src, dst, next) ==
    /\ pc = here
    /\ IF SmoothingEnabled
       THEN /\ df' = SetColumn(SetColumn(df, dst, SavgolFilter(df[src], window_length)),
                               src, SavgolFilter(df[src], window_length))
            /\ filter_calls' = filter_calls + 1
            /\ produced' = SetColumn(produced, dst, <<"filter", window_length>>)
       ELSE /\ df' = SetColumn(df, dst, df[src])
            /\ produced' = SetColumn(produced, dst, <<"copy", 0>>)
            /\ UNCHANGED filter_calls
    /\ pc' = next
    /\ UNCHANGED <<n, window_length, err, calls, lstsq_rejects_nan, input, before, first>>

\* one df[dst] = ... of lines 56-74: the filter's output when smoothing is
\* enabled (lines 56-64), else the source column itself (67-69, 72-74).
\* savgol_filter is invoked before it can raise, so a raising call counts
\* in filter_calls as well.
Smooth(here, src, dst, next) ==
    /\ pc = here
    /\ IF SmoothingEnabled
       THEN IF SavgolRaises(df[src], window_length, PolyOrder)
            THEN /\ Raise("ValueError")
                 /\ filter_calls' = filter_calls + 1
            ELSE IF EdgeFitFails(df[src], window_length, lstsq_rejects_nan)
            THEN /\ Raise("LinAlgError")
                 /\ filter_calls' = filter_calls + 1
            ELSE /\ df' = SetColumn(df, dst, SavgolFilter(df[src], window_length))
                 /\ filter_calls' = filter_calls + 1
                 /\ produced' = SetColumn(produced, dst, <<"filter", window_length>>)
                 /\ pc' = next
                 /\ UNCHANGED <<n, window_length, err, calls, lstsq_rejects_nan, input, before, first>>
       ELSE /\ df' = SetColumn(df, dst, df[src])
            /\ produced' = SetColumn(produced, dst, <<"copy", 0>>)
            /\ pc' = next
            /\ UNCHANGED <<n, window_length, err, calls, filter_calls, lstsq_rejects_nan, input, before, first>>

SmoothDip == Smooth("L56", "Dip_Angle_deg", "Dip_Angle_smooth", "L59")

SmoothDeclination == Smooth("L59", "Declination_deg", "Declination_smooth", "L62")

SmoothBz == Smooth("L62", "Bz_uT", "Bz_smooth", "L76")

\* line 76
Return ==
    /\ pc = "L76"
    /\ pc' = "done"
    /\ first' = IF calls = 1 THEN df ELSE first
    /\ UNCHANGED <<df, n, window_length, err, calls, filter_calls, produced, lstsq_rejects_nan, input, before>>

\* line 151 once more: the function applied to the table it returned
CallAgain ==
    /\ pc = "done"
    /\ calls < MaxCalls
    /\ calls' = calls + 1
    /\ pc' = "L34"
    /\ n' = 0
    /\ window_length' = 0
    /\ UNCHANGED <<df, err, filter_calls, produced, lstsq_rejects_nan, input, before, first>>

Next ==
    \/ Coerce
    \/ DeriveH
    \/ DeriveDip
    \/ DeriveDeclination
    \/ Plan
    \/ SmoothDip
    \/ SmoothDeclination
    \/ SmoothBz
    \/ Return
    \/ CallAgain

Spec == Init /\ [][Next]_vars

(* ------------------------------------------------------------- claims *)

\* the call has passed line 52: n and, for n > MinSamples, window_length are set
Planned == pc \in {"L56", "L59", "L62", "L76", "done"}

Finished == pc \in {"L76", "done"}

Stopped == pc \in {"done", "raised"}

Len0 == Rows(input)

HasOddCell(kind) ==
    \E c \in {"Bx_uT", "By_uT", "Bz_uT"} : \E i \in 1..Len0 : input[c][i].k = kind

Sign(v) == IF v > 0 THEN 1 ELSE IF v < 0 THEN -1 ELSE 0

\* C1 as stated: for every n > 10 the window is max(5, c), c the odd candidate
\* from n // 4, with no upper cap (so n = 100 gives 25 and n = 200 gives 51).
C1_Original ==
    (Planned /\ n > 10) =>
        LET q == n \div 4
            c == IF q % 2 = 1 THEN q ELSE q + 1
        IN  /\ window_length = (IF c < 5 THEN 5 ELSE c)
            /\ (n = 50 => window_length = 13)
            /\ (n = 100 => window_length = 25)
            /\ (n = 200 => window_length = 51)

\* C1 amended: for every n > 10 the window is max(5, min(21, c)): the odd
\* candidate capped at 21; n = 50 gives 13, n = 100 and n = 200 give 21.
C1_WindowCapped ==
    (Planned /\ n > 10) =>
        LET q == n \div 4
            c == IF q % 2 = 1 THEN q ELSE q + 1
        IN  /\ window_length = (IF c < 5 THEN 5 ELSE IF c > 21 THEN 21 ELSE c)
            /\ (n = 50 => window_length = 13)
            /\ (n = 100 => window_length = 21)
            /\ (n = 200 => window_length = 21)

C1_Witness == Planned /\ n = 200 /\ window_length = 21 /\ filter_calls > 0

\* C2: for n <= 10 smoothing is disabled: the call returns, the three
\* smoothed columns are element-for-element copies of Dip_Angle_deg,
\* Declination_deg and Bz_uT, and savgol_filter is never invoked.
C2_ShortSeriesCopied ==
    /\ (Len0 <= 10 => pc # "raised" /\ filter_calls = 0)
    /\ (Finished /\ Len0 <= 10) =>
          /\ df["Dip_Angle_smooth"] = df["Dip_Angle_deg"]
          /\ df["Declination_smooth"] = df["Declination_deg"]
          /\ df["Bz_smooth"] = df["Bz_uT"]
          /\ \A c \in SmoothColumns : produced[c][1] = "copy"

C2_Witness ==
    /\ pc = "done" /\ n = 8 /\ filter_calls = 0
    /\ df["Bz_smooth"] = df["Bz_uT"]
    /\ \E i \in 1..n : df["Bz_uT"][i] # df["Bz_uT"][1]

\* C4 as stated: a non-numeric raw cell is coerced to a missing value without
\* raising; H, dip and declination of a sample are missing exactly when a raw
\* component they depend on is missing; the derived values of the other
\* samples are what they are in a table without the bad cell (nothing is
\* dropped or zero-filled); and the call never fails, for any length,
\* including n > 10 where the filter runs.
C4_Original ==
    /\ pc # "raised"
    /\ pc # "L34" =>
          \A c \in RawColumns : \A i \in 1..Len0 :
              /\ df[c][i].k \in {"num", "nan"}
              /\ IsNaN(df[c][i]) <=> input[c][i].k \in {"text", "nan"}
    /\ Planned =>
          /\ Rows(df) = Len0
          /\ \A i \in 1..Len0 :
                LET bad(c) == input[c][i].k \in {"text", "nan"}
                IN  /\ IsNaN(df["H_uT"][i]) <=> (bad("Bx_uT") \/ bad("By_uT"))
                    /\ IsNaN(df["Dip_Angle_deg"][i])
                          <=> (bad("Bx_uT") \/ bad("By_uT") \/ bad("Bz_uT"))
                    /\ IsNaN(df["Declination_deg"][i]) <=> (bad("Bx_uT") \/ bad("By_uT"))
          /\ \A i, j \in 1..Len0 :
                (\A c \in {"Bx_uT", "By_uT", "Bz_uT"} :
                    /\ input[c][i] = input[c][j]
                    /\ input[c][i].k = "num")
                => /\ IsNum(df["H_uT"][i])
                   /\ \A c \in AngleColumns : df[c][i] = df[c][j]

C7_Idempotent ==
    (pc = "done" /\ calls >= 2) =>
        /\ DOMAIN df = DOMAIN first
        /\ \A c \in AngleColumns : df[c] = first[c]

C7_Witness ==
    /\ pc = "done" /\ calls = 2 /\ n > 10 /\ filter_calls = 6
    /\ HasOddCell("text")
    /\ \E i \in 1..n : df["Bz_smooth"][i] # df["Bz_uT"][i]

\* C8: smoothing is applied iff n > 10, and then the window passed to the
\* filter is odd with 5 <= window_length <= n (5 for n = 11) and the filter
\* proceeds; the 'window_length < 5' fallback under n > 10 is never taken.
C8_WindowFitsSeries ==
    /\ Planned =>
          /\ n = Len0
          /\ SmoothingEnabled <=> n > 10
          /\ n > 10 =>
                /\ window_length % 2 = 1
                /\ 5 <= window_length /\ window_length <= n
                /\ ~SavgolRaises(df["Bz_uT"], window_length, PolyOrder)
          /\ n = 11 => window_length = 5
          /\ \A c \in SmoothColumns \cap DOMAIN produced :
                (calls = 1 \/ Finished) =>
                   (produced[c][1] = "filter" <=> n > 10)
    /\ err # "ValueError"
    /\ (Finished /\ n > 10) => filter_calls = 3 * calls

C8_Witness ==
    /\ pc = "done" /\ n = 11 /\ window_length = 5 /\ filter_calls = 3
    /\ produced["Bz_smooth"] = <<"filter", 5>>

\* the derived columns the first call has produced when it is at pc
ProducedBy(at) ==
    CASE at \in {"L34", "L38"} -> {}
      [] at = "L41" -> {"H_uT"}
      [] at = "L45" -> {"H_uT", "Dip_Angle_deg"}
      [] at \in {"L48", "L56"} -> AngleColumns
      [] at = "L59" -> AngleColumns \cup {"Dip_Angle_smooth"}
      [] at = "L62" -> AngleColumns \cup {"Dip_Angle_smooth", "Declination_smooth"}
      [] OTHER -> AngleColumns \cup SmoothColumns

\* C9: at every point of the pipeline each derived column that is present has
\* exactly n entries, aligned with the raw columns, and a derived column is
\* present iff the stage that produces it has run: the angle columns after
\* lines 38-45, the smoothed columns after lines 56-74, on both paths.
C9_ColumnsAligned ==
    /\ \A c \in DOMAIN df : DOMAIN df[c] = 1..Len0
    /\ RawColumns \subseteq DOMAIN df
    /\ pc # "raised" =>
          DOMAIN df \ RawColumns =
              (IF calls = 1 THEN ProducedBy(pc) ELSE AngleColumns \cup SmoothColumns)

C9_Witness ==
    /\ pc = "L62" /\ calls = 1 /\ n > 10
    /\ "Declination_smooth" \in DOMAIN df
    /\ "Bz_smooth" \notin DOMAIN df
    /\ Len(df["Declination_smooth"]) = n

\* C10: the smoothing step only appends: on both paths it adds exactly the
\* three smoothed columns and leaves the number of rows, the five raw columns,
\* H_uT, Dip_Angle_deg and Declination_deg unchanged in every element.
C10_SmoothingOnlyAppends ==
    Planned =>
        /\ \A c \in DOMAIN before \ SmoothColumns : c \in DOMAIN df /\ df[c] = before[c]
        /\ RawColumns \cup AngleColumns \subseteq DOMAIN before
        /\ DOMAIN df \ DOMAIN before \subseteq SmoothColumns
        /\ Rows(df) = Rows(before)
        /\ Finished => DOMAIN df = DOMAIN before \cup SmoothColumns
        /\ (Finished /\ calls = 1) => DOMAIN df \ DOMAIN before = SmoothColumns

C10_Witness ==
    /\ pc = "L76" /\ calls = 1 /\ n > 10 /\ filter_calls = 3
    /\ DOMAIN df \ DOMAIN before = SmoothColumns
    /\ df["Dip_Angle_smooth"] # df["Dip_Angle_deg"]
    /\ df["Dip_Angle_deg"] = before["Dip_Angle_deg"]

====
